---- MODULE Spec2Model ----
(***************************************************************************)
(* Model of the POD engine (_ProperOrthogonalDecompositionBase) and of the *)
(* numpy AffineExpansionStorage of RBniCS.                                 *)
(*                                                                         *)
(* Numbers: eigenvalues are small integers; a retained-energy value is an  *)
(* exact fraction <<numerator, denominator>> with denominator > 0; tol is  *)
(* the fraction tol / TolDen.  Arithmetic is exact.                        *)
(* A snapshot is 0 (the zero vector) or 1 (a non-zero vector, linearly     *)
(* independent of the other stored ones).  A vector of the snapshot space  *)
(* (a basis candidate) is represented by its squared inner-product norm.   *)
(***************************************************************************)
EXTENDS Integers, Sequences, FiniteSets, TLC

\* ---------------------------------------------------------------- bounds
MaxSnapshots == 2
MaxNmax == 3
MaxEig == 1
TolDen == 2
NumProcs == 2
MaxQ == 2

VARIABLES
    X,                 \* self.X, the inner product ("None" when absent)
    snapshots_matrix,  \* self.snapshots_matrix
    eigenvalues,       \* self.eigenvalues
    retained_energy,   \* self.retained_energy
    spectrum,          \* what the eigensolver returns for the stored snapshots
    last,              \* the most recent call on the engine and what it returned
    call,              \* the save call the participants are in, or "none"
    pc,                \* position of each participant in the save call
    wi,                \* loop variable i of the writer
    file,              \* the output file of the save call
    arrived,           \* participants that have entered mpi_comm.barrier()
    barrier_calls,     \* barrier calls of each participant in this save call
    aes_shape,         \* lengths of the AffineExpansionStorage, <<>> before construction
    content,           \* self._content, 0 for an element that is not set
    content_as_matrix, \* self._content_as_matrix, None when unset
    disk,              \* what save left under (directory, filename), or NoDisk
    aes_last           \* the most recent call on the storage

podVars == <<X, snapshots_matrix, eigenvalues, retained_energy, spectrum>>
saveVars == <<call, pc, wi, file, arrived, barrier_calls>>
aesVars == <<aes_shape, content, content_as_matrix, disk, aes_last>>
vars == <<X, snapshots_matrix, eigenvalues, retained_energy, spectrum, last,
          call, pc, wi, file, arrived, barrier_calls,
          aes_shape, content, content_as_matrix, disk, aes_last>>

\* ranks of the participants of mpi_comm
Procs == 0..(NumProcs - 1)

\* ------------------------------------------------------ numeric helpers
\* numpy.zeros(n)
zeros(n) == [i \in 1..n |-> 0]

\* numpy.abs on a scalar
AbsMutant(x) == x
Abs(x) == IF x < 0 THEN -x ELSE x

\* numpy.abs on an array
abs(a) == [i \in 1..Len(a) |-> Abs(a[i])]

\* numpy.cumsum
RECURSIVE PartialSum(_, _)
PartialSum(a, i) == IF i = 0 THEN 0 ELSE PartialSum(a, i - 1) + a[i]

compute_retained_energy(a) == [i \in 1..Len(a) |-> PartialSum(a, i)]

\* numpy.sum
compute_total_energy(a) == PartialSum(a, Len(a))

\* ------------------------------------------------------------ POD engine
\* lines 78-83: self.retained_energy from self.eigenvalues
NormaliseMutant(eigs) ==
    LET total_energy == compute_total_energy(abs(eigs))
        cum == compute_retained_energy(abs(eigs))
    IN  [i \in 1..Len(eigs) |-> <<cum[i], IF total_energy > 0 THEN total_energy ELSE 1>>]
Normalise(eigs) ==
    LET total_energy == compute_total_energy(abs(eigs))
        cum == compute_retained_energy(abs(eigs))
    IN  IF total_energy > 0
        THEN [i \in 1..Len(eigs) |-> <<cum[i], total_energy>>]
        ELSE [i \in 1..Len(eigs) |-> <<cum[i] + 1, 1>>]

\* line 95: self.retained_energy[N] > 1. - tol, tol = tol / TolDen
ExceedsMutant(re, tol) == re[1] * TolDen >= (TolDen - tol) * re[2]
Exceeds(re, tol) == re[1] * TolDen > (TolDen - tol) * re[2]

\* lines 85-96: the value of the loop variable N when the for loop ends,
\* entered at index N (0-based) with Nmax already clamped
RECURSIVE LoopExit(_, _, _, _)
LoopExit(re, Nmax, tol, N) ==
    IF Exceeds(re[N + 1], tol) THEN N
    ELSE IF N + 1 < Nmax THEN LoopExit(re, Nmax, tol, N + 1)
    ELSE N

\* math.sqrt on the squares the model uses
sqrt(x) == CHOOSE r \in 0..x : r * r = x

\* lines 88-93: the candidate b of mode N, given as its squared norm, after
\* the division by norm_b that line 92 guards
CandidateMutant(bXb) == 1
Candidate(bXb) ==
    LET norm_b == sqrt(bXb)
    IN  IF norm_b /= 0 THEN bXb \div (norm_b * norm_b) ELSE bXb

\* line 71
ClampMutant(Nmax, Neigs) == Neigs
Clamp(Nmax, Neigs) == IF Nmax < Neigs THEN Nmax ELSE Neigs

\* line 97: N += 1 after the loop
CountMutant(N) == N
Count(N) == N + 1

\* line 99: self.eigenvalues[:N]
SliceMutant(a, N) == a
Slice(a, N) == SubSeq(a, 1, N)

\* eigenvalues the eigensolver can return for n snapshots: real numbers in
\* decreasing order ("largest real"), of either sign
EigVals == (0 - 1)..MaxEig
AllZero(s) == \A i \in 1..Len(s) : s[i] = 0
RECURSIVE DecreasingSeqs(_, _)
DecreasingSeqs(n, hi) ==
    IF n = 0 THEN {<<>>}
    ELSE UNION {{<<v>> \o s : s \in DecreasingSeqs(n - 1, v)} : v \in {e \in EigVals : e <= hi}}

Spectra == [n \in 0..MaxSnapshots |-> DecreasingSeqs(n, MaxEig)]

\* number of non-zero snapshots, the rank of the snapshot set
RECURSIVE Rank(_)
Rank(snaps) == IF snaps = <<>> THEN 0 ELSE snaps[1] + Rank(Tail(snaps))

\* lines 56-58, 62-68, 74, 86-91: the eigenpairs of the correlation matrix
\* of the stored snapshots: eigs[i] is get_eigenvalue(i - 1), and
\* normsq[k] is transpose(b)*X*b for b = snapshots_matrix*eigvector of mode
\* k - 1, which is 0 exactly for the modes beyond the rank.  All are 0
\* when every snapshot is the zero vector.
EigenSolutions(snaps) ==
    IF AllZero(snaps)
    THEN {[eigs |-> zeros(Len(snaps)), normsq |-> zeros(Len(snaps))]}
    ELSE {[eigs |-> e,
           normsq |-> [k \in 1..Len(snaps) |-> IF k <= Rank(snaps) THEN 4 ELSE 0]] :
             e \in Spectra[Len(snaps)]}

NoCall == [op |-> "none", Nmax |-> 0, tol |-> 0, N |-> 0, eigs |-> <<>>, Z |-> <<>>,
           omitted |-> FALSE, lines |-> <<>>, raised |-> FALSE,
           again |-> FALSE, prev |-> <<>>]

\* the value None of self._content_as_matrix
None == [rows |-> 0, cols |-> 0, data |-> <<>>]
\* nothing saved yet under (directory, filename)
NoDisk == [shape |-> <<>>, content |-> <<>>, origin |-> <<>>]
NoAesCall == [op |-> "none", ok |-> TRUE, cached_before |-> FALSE, computed |-> FALSE,
              fresh_before |-> FALSE, inside |-> TRUE]

NoFile == [state |-> "absent", lines |-> <<>>, by |-> {}]

\* every participant is outside a save call
AllIdle == \A p \in Procs : pc[p] = "idle"

Init ==
    /\ X \in {"None", "X"}
    /\ snapshots_matrix = <<>>
    /\ eigenvalues = zeros(0)
    /\ retained_energy = zeros(0)
    /\ spectrum = [eigs |-> <<>>, normsq |-> <<>>]
    /\ last = NoCall
    /\ call = "none"
    /\ pc = [p \in Procs |-> "idle"]
    /\ wi = 0
    /\ file = NoFile
    /\ arrived = {}
    /\ barrier_calls = [p \in Procs |-> 0]
    /\ aes_shape = <<>>
    /\ content = <<>>
    /\ content_as_matrix = None
    /\ disk = NoDisk
    /\ aes_last = NoAesCall

\* store_snapshot of the concrete variants: append to the container; the
\* eigenpairs of the new snapshot set are es
store_snapshot(s, es) ==
    /\ AllIdle
    /\ Len(snapshots_matrix) < MaxSnapshots
    /\ snapshots_matrix' = Append(snapshots_matrix, s)
    /\ spectrum' = es
    /\ last' = [NoCall EXCEPT !.op = "store_snapshot"]
    /\ UNCHANGED <<X, eigenvalues, retained_energy>>
    /\ UNCHANGED saveVars
    /\ UNCHANGED aesVars

\* clear(), lines 42-44
clear ==
    /\ AllIdle
    /\ snapshots_matrix' = <<>>
    /\ eigenvalues' = zeros(0)
    /\ spectrum' = [eigs |-> <<>>, normsq |-> <<>>]
    /\ last' = [NoCall EXCEPT !.op = "clear"]
    /\ UNCHANGED <<X, retained_energy>>
    /\ UNCHANGED saveVars
    /\ UNCHANGED aesVars

\* line 61: Z = BasisContainerType(self.V_or_Z, *self.args), a new and
\* empty basis container
BasisContainerTypeMutant == last.Z
BasisContainerType == <<>>

\* apply(Nmax, tol), lines 50-99; again and prev remember, for a call that
\* repeats the call before it, what that call returned
apply(Nmax, tol) ==
    LET Neigs == Len(snapshots_matrix)
        NmaxC == Clamp(Nmax, Neigs)
        eigs  == [i \in 1..Neigs |-> spectrum.eigs[i]]
        re    == Normalise(eigs)
        Nexit == LoopExit(re, NmaxC, tol, 0)
        Z     == BasisContainerType \o [k \in 1..(Nexit + 1) |-> Candidate(spectrum.normsq[k])]
        N     == Count(Nexit)
        again == last.op = "apply" /\ last.Nmax = Nmax /\ last.tol = tol
    IN  /\ AllIdle
        /\ Neigs >= 1
        /\ eigenvalues' = eigs
        /\ retained_energy' = re
        /\ last' = [op |-> "apply", Nmax |-> Nmax, tol |-> tol, N |-> N,
                    eigs |-> Slice(eigs, N), Z |-> Z,
                    omitted |-> FALSE, lines |-> <<>>, raised |-> FALSE,
                    again |-> again,
                    prev |-> IF again THEN <<last.N, last.eigs, Len(last.Z)>> ELSE <<>>]
        /\ UNCHANGED <<X, snapshots_matrix, spectrum>>
        /\ UNCHANGED saveVars
        /\ UNCHANGED aesVars

\* print_eigenvalues(N), lines 101-105; omitted: the call passes no N.
\* The loop prints one line per index and stops with IndexError at the
\* first index self.eigenvalues does not have.
print_eigenvalues(omitted, Narg) ==
    LET N == IF omitted THEN Len(snapshots_matrix) ELSE Narg
        printed == IF N <= Len(eigenvalues) THEN N ELSE Len(eigenvalues)
    IN  /\ AllIdle
        /\ last' = [NoCall EXCEPT !.op = "print_eigenvalues",
                                  !.omitted = omitted,
                                  !.N = N,
                                  !.lines = [i \in 1..printed |-> <<i - 1, eigenvalues[i]>>],
                                  !.raised = N > Len(eigenvalues)]
        /\ UNCHANGED podVars
        /\ UNCHANGED saveVars
        /\ UNCHANGED aesVars

\* ---------------------------------- save_eigenvalues_file, lines 107-113
\* ------------------------------ save_retained_energy_file, lines 115-121
\* rbnics.utils.mpi.is_io_process
is_io_process(p) == p = 0

\* the sequence a save call writes: self.eigenvalues (line 112) or
\* self.retained_energy (line 120)
Written(kind) == IF kind = "save_eigenvalues_file" THEN eigenvalues ELSE retained_energy

\* every participant calls the same save method
BeginSave(kind) ==
    /\ AllIdle
    /\ call' = kind
    /\ pc' = [p \in Procs |-> "called"]
    /\ wi' = 0
    /\ file' = NoFile
    /\ arrived' = {}
    /\ barrier_calls' = [p \in Procs |-> 0]
    /\ last' = [NoCall EXCEPT !.op = kind]
    /\ UNCHANGED podVars
    /\ UNCHANGED aesVars

\* lines 109-110 and 117-118: open(..., "w") succeeds (ok) or raises
OpenFile(p, ok) ==
    /\ pc[p] = "called"
    /\ is_io_process(p)
    /\ IF ok
       THEN /\ file' = [state |-> "open", lines |-> <<>>, by |-> file.by \cup {p}]
            /\ pc' = [pc EXCEPT ![p] = "writing"]
       ELSE /\ file' = file
            /\ pc' = [pc EXCEPT ![p] = "raised"]
    /\ wi' = 0
    /\ UNCHANGED <<podVars, last, call, arrived, barrier_calls>>
    /\ UNCHANGED aesVars

\* lines 111-112 and 119-120: one iteration of the writing loop; indexing
\* past the end of the sequence raises IndexError, outfile.write succeeds
\* (ok) or raises; the with statement closes the file when an exception
\* leaves it
WriteLine(p, ok) ==
    /\ pc[p] = "writing"
    /\ wi < Len(snapshots_matrix)
    /\ IF wi + 1 <= Len(Written(call)) /\ ok
       THEN /\ file' = [file EXCEPT !.lines = Append(@, <<wi, Written(call)[wi + 1]>>)]
            /\ wi' = wi + 1
            /\ pc' = pc
       ELSE /\ file' = [file EXCEPT !.state = "closed"]
            /\ wi' = wi
            /\ pc' = [pc EXCEPT ![p] = "raised"]
    /\ UNCHANGED <<podVars, last, call, arrived, barrier_calls>>
    /\ UNCHANGED aesVars

\* end of the with statement after range(N) is exhausted
CloseFile(p) ==
    /\ pc[p] = "writing"
    /\ wi = Len(snapshots_matrix)
    /\ file' = [file EXCEPT !.state = "closed"]
    /\ pc' = [pc EXCEPT ![p] = "at_barrier"]
    /\ UNCHANGED <<podVars, last, call, wi, arrived, barrier_calls>>
    /\ UNCHANGED aesVars

\* lines 113 and 121: the participant enters self.mpi_comm.barrier(), after
\* the with statement or, when it is not the I/O process (lines 108, 116),
\* right away
EnterBarrier(p) ==
    /\ pc[p] = "at_barrier" \/ (pc[p] = "called" /\ ~is_io_process(p))
    /\ arrived' = arrived \cup {p}
    /\ barrier_calls' = [barrier_calls EXCEPT ![p] = @ + 1]
    /\ pc' = [pc EXCEPT ![p] = "in_barrier"]
    /\ UNCHANGED <<podVars, last, call, wi, file>>
    /\ UNCHANGED aesVars

\* the barrier releases a participant once all of them have entered it,
\* and the save call returns
LeaveBarrier(p) ==
    /\ pc[p] = "in_barrier"
    /\ arrived = Procs
    /\ pc' = [pc EXCEPT ![p] = "returned"]
    /\ UNCHANGED <<podVars, last, call, wi, file, arrived, barrier_calls>>
    /\ UNCHANGED aesVars

\* every participant has returned and goes on with the caller's program
Continue ==
    /\ \A p \in Procs : pc[p] = "returned"
    /\ call' = "none"
    /\ pc' = [p \in Procs |-> "idle"]
    /\ wi' = 0
    /\ file' = NoFile
    /\ arrived' = {}
    /\ barrier_calls' = [p \in Procs |-> 0]
    /\ UNCHANGED <<podVars, last>>
    /\ UNCHANGED aesVars

\* ------------------------------------------------ AffineExpansionStorage
Items == {1, 2}
Unset == 0

\* lengths a storage can be constructed with: <<Q>> or <<Q1, Q2>>
Shapes == {<<q>> : q \in 1..MaxQ}
              \cup UNION {{<<q1, q2>> : q2 \in 1..(MaxQ \div q1)} : q1 \in 1..MaxQ}

\* the keys inside the bounds fixed at construction
Keys(shape) ==
    IF Len(shape) = 1 THEN 0..(shape[1] - 1)
    ELSE (0..(shape[1] - 1)) \X (0..(shape[2] - 1))

\* the keys a caller may pass, inside the bounds or not
CallerKeys(shape) ==
    IF Len(shape) = 1 THEN (0 - 1)..MaxQ
    ELSE ((0 - 1)..MaxQ) \X ((0 - 1)..MaxQ)

\* numpy.asmatrix of the content: a 1 x Q matrix for the single-indexed
\* storage, a Q1 x Q2 matrix for the double-indexed one
AffineExpansionStorageContent_AsMatrix(shape, c) ==
    LET rows == IF Len(shape) = 1 THEN 1 ELSE shape[1]
        cols == IF Len(shape) = 1 THEN shape[1] ELSE shape[2]
    IN  [rows |-> rows, cols |-> cols,
         data |-> [rc \in (0..(rows - 1)) \X (0..(cols - 1)) |->
                      IF Len(shape) = 1 THEN c[rc[2]] ELSE c[rc]]]

Constructed == aes_shape /= <<>>

\* __init__(arg1, arg2), lines 36-38, on top of the base constructor
aes_init(shape) ==
    /\ ~Constructed
    /\ aes_shape' = shape
    /\ content' = [k \in Keys(shape) |-> Unset]
    /\ content_as_matrix' = None
    /\ aes_last' = [NoAesCall EXCEPT !.op = "__init__"]
    /\ UNCHANGED disk
    /\ UNCHANGED <<podVars, last, saveVars>>

\* the key lies in [0, length) in every index
InBounds(key) ==
    IF Len(aes_shape) = 1 THEN 0 <= key /\ key < aes_shape[1]
    ELSE /\ 0 <= key[1] /\ key[1] < aes_shape[1]
         /\ 0 <= key[2] /\ key[2] < aes_shape[2]

\* base __setitem__: assign inside the bounds, fail outside them
Base_setitem_okMutant(key) == TRUE
Base_setitem_ok(key) == key \in Keys(aes_shape)

\* __setitem__(key, item), lines 45-48
setitemMutant(key, item) ==
    /\ Constructed
    /\ IF Base_setitem_ok(key)
       THEN /\ content' = [content EXCEPT ![key] = item]
            /\ content_as_matrix' = content_as_matrix
       ELSE UNCHANGED <<content, content_as_matrix>>
    /\ aes_last' = [op |-> "__setitem__", ok |-> Base_setitem_ok(key),
                    cached_before |-> content_as_matrix /= None, computed |-> FALSE,
                    fresh_before |-> aes_last.op = "__init__", inside |-> InBounds(key)]
    /\ UNCHANGED <<aes_shape, disk>>
    /\ UNCHANGED <<podVars, last, saveVars>>
setitem(key, item) ==
    /\ Constructed
    /\ IF Base_setitem_ok(key)
       THEN /\ content' = [content EXCEPT ![key] = item]
            /\ content_as_matrix' = None
       ELSE UNCHANGED <<content, content_as_matrix>>
    /\ aes_last' = [op |-> "__setitem__", ok |-> Base_setitem_ok(key),
                    cached_before |-> content_as_matrix /= None, computed |-> FALSE,
                    fresh_before |-> aes_last.op = "__init__", inside |-> InBounds(key)]
    /\ UNCHANGED <<aes_shape, disk>>
    /\ UNCHANGED <<podVars, last, saveVars>>

\* as_matrix(), lines 56-59
as_matrixMutant ==
    /\ Constructed
    /\ content_as_matrix' = AffineExpansionStorageContent_AsMatrix(aes_shape, content)
    /\ aes_last' = [op |-> "as_matrix", ok |-> TRUE,
                    cached_before |-> content_as_matrix /= None,
                    computed |-> TRUE,
                    fresh_before |-> aes_last.op = "__init__", inside |-> TRUE]
    /\ UNCHANGED <<aes_shape, content, disk>>
    /\ UNCHANGED <<podVars, last, saveVars>>
as_matrix ==
    /\ Constructed
    /\ content_as_matrix' =
           IF content_as_matrix = None
           THEN AffineExpansionStorageContent_AsMatrix(aes_shape, content)
           ELSE content_as_matrix
    /\ aes_last' = [op |-> "as_matrix", ok |-> TRUE,
                    cached_before |-> content_as_matrix /= None,
                    computed |-> content_as_matrix = None,
                    fresh_before |-> aes_last.op = "__init__", inside |-> TRUE]
    /\ UNCHANGED <<aes_shape, content, disk>>
    /\ UNCHANGED <<podVars, last, saveVars>>

\* the per-element serialization of the numeric backend: the artifact
\* written for one element, and the element read back from an artifact
element_save(item) == [kind |-> IF item = Unset THEN "unset" ELSE "tensor", value |-> item]
element_loadMutant(artifact) == Unset
element_load(artifact) == IF artifact.kind = "tensor" THEN artifact.value ELSE Unset

\* base save: one artifact per element under (directory, filename);
\* origin remembers the elements of the instance that saved
aes_save ==
    /\ Constructed
    /\ disk' = [shape |-> aes_shape,
                content |-> [k \in DOMAIN content |-> element_save(content[k])],
                origin |-> content]
    /\ aes_last' = [op |-> "save", ok |-> TRUE,
                    cached_before |-> content_as_matrix /= None, computed |-> FALSE,
                    fresh_before |-> aes_last.op = "__init__", inside |-> TRUE]
    /\ UNCHANGED <<aes_shape, content, content_as_matrix>>
    /\ UNCHANGED <<podVars, last, saveVars>>

\* base load: restores every element, fails when nothing of this shape
\* was saved
Base_load_ok == disk /= NoDisk /\ disk.shape = aes_shape
Base_load == [k \in DOMAIN disk.content |-> element_load(disk.content[k])]

\* load(directory, filename), lines 50-54: the base load, then the reset of
\* the cache (line 53), then as_matrix() (line 54)
loadMutant ==
    /\ Constructed
    /\ IF Base_load_ok
       THEN /\ content' = Base_load
            /\ content_as_matrix' =
                   IF content_as_matrix = None
                   THEN AffineExpansionStorageContent_AsMatrix(aes_shape, Base_load)
                   ELSE content_as_matrix
       ELSE UNCHANGED <<content, content_as_matrix>>
    /\ aes_last' = [op |-> "load", ok |-> Base_load_ok,
                    cached_before |-> content_as_matrix /= None, computed |-> Base_load_ok,
                    fresh_before |-> aes_last.op = "__init__", inside |-> TRUE]
    /\ UNCHANGED <<aes_shape, disk>>
    /\ UNCHANGED <<podVars, last, saveVars>>
load ==
    LET reset == None
    IN  /\ Constructed
        /\ IF Base_load_ok
           THEN /\ content' = Base_load
                /\ content_as_matrix' =
                       IF reset = None
                       THEN AffineExpansionStorageContent_AsMatrix(aes_shape, Base_load)
                       ELSE reset
           ELSE UNCHANGED <<content, content_as_matrix>>
        /\ aes_last' = [op |-> "load", ok |-> Base_load_ok,
                        cached_before |-> content_as_matrix /= None, computed |-> Base_load_ok,
                        fresh_before |-> aes_last.op = "__init__", inside |-> TRUE]
        /\ UNCHANGED <<aes_shape, disk>>
        /\ UNCHANGED <<podVars, last, saveVars>>

\* the storage goes out of use; another one may be constructed
aes_discard ==
    /\ Constructed
    /\ aes_shape' = <<>>
    /\ content' = <<>>
    /\ content_as_matrix' = None
    /\ aes_last' = NoAesCall
    /\ UNCHANGED disk
    /\ UNCHANGED <<podVars, last, saveVars>>

AesInit == \E shape \in Shapes : aes_init(shape)
SetItem == \E key \in CallerKeys(aes_shape), item \in Items : setitem(key, item)
AsMatrix == as_matrix
AesSave == aes_save
Load == load
Discard == aes_discard

NextAES ==
    \/ AesInit
    \/ SetItem
    \/ AsMatrix
    \/ AesSave
    \/ Load
    \/ Discard

SpecAES == Init /\ [][NextAES]_vars

Store ==
    /\ AllIdle
    /\ Len(snapshots_matrix) < MaxSnapshots
    /\ \E s \in {0, 1} :
           \E es \in EigenSolutions(Append(snapshots_matrix, s)) : store_snapshot(s, es)
Clear == clear
Apply ==
    /\ AllIdle
    /\ \E Nmax \in 1..MaxNmax, tol \in 0..TolDen : apply(Nmax, tol)

PrintEigenvalues ==
    /\ AllIdle
    /\ \E omitted \in BOOLEAN, Narg \in 0..MaxNmax :
           (omitted => Narg = 0) /\ print_eigenvalues(omitted, Narg)

Begin == \E kind \in {"save_eigenvalues_file", "save_retained_energy_file"} : BeginSave(kind)
Open == \E p \in Procs, ok \in BOOLEAN : OpenFile(p, ok)
Write == \E p \in Procs, ok \in BOOLEAN : WriteLine(p, ok)
Close == \E p \in Procs : CloseFile(p)
Enter == \E p \in Procs : EnterBarrier(p)
Leave == \E p \in Procs : LeaveBarrier(p)

NextPOD ==
    \/ Store
    \/ Clear
    \/ Apply
    \/ PrintEigenvalues

\* the POD engine used by one participant: no save call
SpecPOD == Init /\ [][NextPOD]_vars

Next ==
    \/ Store
    \/ Clear
    \/ Apply
    \/ PrintEigenvalues
    \/ Begin
    \/ Open
    \/ Write
    \/ Close
    \/ Enter
    \/ Leave
    \/ Continue

Spec == Init /\ [][Next]_vars

\* ================================================================ claims
\* the state right after an apply call has returned
Returned == last.op = "apply"
Neigs == Len(snapshots_matrix)
MinOf(a, b) == IF a <= b THEN a ELSE b
\* a fraction p is strictly above 1 - t / TolDen
AboveTol(p, t) == p[1] * TolDen > (TolDen - t) * p[2]
\* the 1-based positions below the clamped cap whose retained energy
\* is above 1 - tol
Crossings == {k \in 1..MinOf(last.Nmax, Neigs) : AboveTol(retained_energy[k], last.tol)}

\* C1 (as stated): after apply(Nmax, tol) on N >= 1 snapshots, N_ret <= Nmax
\* and RetainedEnergy[N_ret-1] > 1 - tol unless N_ret = Nmax, Nmax being
\* the argument of the call.
C1_AsStated ==
    Returned =>
        /\ last.N <= last.Nmax
        /\ AboveTol(retained_energy[last.N], last.tol) \/ last.N = last.Nmax

\* C1 (amended): after apply(Nmax, tol) on N >= 1 snapshots, N_ret <= Nmax
\* and RetainedEnergy[N_ret-1] > 1 - tol unless N_ret = min(Nmax, N), the
\* cap after clamping to the number of snapshots.
C1_Truncation ==
    Returned =>
        /\ last.N >= 1
        /\ last.N <= last.Nmax
        /\ AboveTol(retained_energy[last.N], last.tol) \/ last.N = MinOf(last.Nmax, Neigs)

\* C1 witness: apply stopped below the clamped cap because the tolerance
\* was crossed
C1_Witness ==
    /\ Returned
    /\ last.N < MinOf(last.Nmax, Neigs)
    /\ AboveTol(retained_energy[last.N], last.tol)

\* C2: N_ret is the stopping index + 1 on both exits: the first position
\* whose retained energy is above 1 - tol if there is one below the clamped
\* cap (the crossing vector is enriched), min(Nmax, N) otherwise.
C2_StopIndexPlusOne ==
    Returned =>
        /\ Crossings /= {} =>
               /\ last.N \in Crossings
               /\ \A k \in Crossings : last.N <= k
        /\ Crossings = {} => last.N = MinOf(last.Nmax, Neigs)
        /\ Len(last.Z) = last.N

\* C2 witnesses: an early break at the first index, and a natural exhaustion
\* of a loop of more than one iteration
C2_Witness ==
    /\ Returned
    /\ last.N = 1
    /\ 1 \in Crossings
    /\ MinOf(last.Nmax, Neigs) >= 2

C2_WitnessExhausted ==
    /\ Returned
    /\ Crossings = {}
    /\ last.N >= 2

\* C3: apply enriches at most min(Nmax, N) vectors and returns a consistent
\* triple: the first N_ret stored eigenvalues and a basis of N_ret vectors.
C3_ClampedConsistentTriple ==
    Returned =>
        /\ Len(last.Z) <= MinOf(last.Nmax, Neigs)
        /\ Len(last.eigs) = last.N
        /\ last.N <= Len(eigenvalues)
        /\ \A i \in 1..last.N : last.eigs[i] = eigenvalues[i]
        /\ Len(last.Z) = last.N

\* C3 witness: Nmax above the number of snapshots, every snapshot used
C3_Witness ==
    /\ Returned
    /\ last.Nmax > Neigs
    /\ last.N = Neigs
    /\ Neigs >= 2

C5_AsStated ==
    (Returned /\ AllZero(snapshots_matrix)) =>
        /\ AllZero(eigenvalues)
        /\ \A i \in 1..Len(retained_energy) : retained_energy[i] = <<1, 1>>
        /\ last.N = MinOf(last.Nmax, 1)

\* C5 (amended): on all-zero snapshots the eigenvalues are 0, the retained
\* energy is 1 at every index, and N_ret = 1 when tol > 0 but
\* N_ret = min(Nmax, N) when tol = 0.
C5_Degenerate ==
    (Returned /\ AllZero(snapshots_matrix)) =>
        /\ AllZero(eigenvalues)
        /\ Len(retained_energy) = Neigs
        /\ \A i \in 1..Len(retained_energy) : retained_energy[i] = <<1, 1>>
        /\ last.tol > 0 => last.N = 1
        /\ last.tol = 0 => last.N = MinOf(last.Nmax, Neigs)

\* C5 witness: several zero snapshots, tol > 0, a cap above 1
C5_Witness ==
    /\ Returned
    /\ AllZero(snapshots_matrix)
    /\ Neigs >= 2
    /\ last.Nmax >= 2
    /\ last.tol > 0
    /\ last.N = 1

\* C6: after apply the retained energy has one entry per snapshot, is
\* non-decreasing, and ends at 1 when some eigenvalue is non-zero.
C6_EnergyMonotone ==
    Returned =>
        /\ Len(retained_energy) = Neigs
        /\ \A i \in 1..(Neigs - 1) :
               retained_energy[i][1] * retained_energy[i + 1][2]
                   <= retained_energy[i + 1][1] * retained_energy[i][2]
        /\ \A i \in 1..Neigs : retained_energy[i][2] > 0
        /\ ~AllZero(eigenvalues) => retained_energy[Neigs][1] = retained_energy[Neigs][2]

\* C6 witness: eigenvalues of both signs
C6_Witness ==
    /\ Returned
    /\ Neigs >= 2
    /\ eigenvalues[1] > 0
    /\ eigenvalues[Neigs] < 0

\* C7: after clear() the snapshot container, the eigenvalue sequence and
\* the retained-energy sequence are all empty.
C7_ClearResetsAll ==
    last.op = "clear" =>
        /\ snapshots_matrix = <<>>
        /\ eigenvalues = <<>>
        /\ retained_energy = <<>>

\* C8 (as stated): exactly one participant, the I/O process, opens and
\* writes the file; a participant calls the barrier at most once in a save
\* call and exactly once by the time its call has ended; no participant
\* returns before the I/O process has written every line and closed the
\* file.
C8_OneWriterAllAtBarrier ==
    /\ \A p \in file.by : is_io_process(p)
    /\ Cardinality(file.by) <= 1
    /\ \A p \in Procs : barrier_calls[p] <= 1
    /\ \A p \in Procs : pc[p] \in {"returned", "raised"} => barrier_calls[p] = 1
    /\ \A p \in Procs : pc[p] = "returned" =>
           /\ Cardinality(file.by) = 1
           /\ file.state = "closed"
           /\ Len(file.lines) = Neigs

\* C8 (what holds of the code): one writer, at most one barrier call per
\* participant and save call, and a participant that has returned has
\* called the barrier once, after the file was written and closed.
C8_HoldsOnReturn ==
    /\ \A p \in file.by : is_io_process(p)
    /\ Cardinality(file.by) <= 1
    /\ \A p \in Procs : barrier_calls[p] <= 1
    /\ \A p \in Procs : pc[p] = "returned" =>
           /\ barrier_calls[p] = 1
           /\ Cardinality(file.by) = 1
           /\ file.state = "closed"
           /\ Len(file.lines) = Neigs

\* C9 (as stated): an I/O process whose open or write has raised has still
\* entered the barrier, so that no participant waits in the barrier for a
\* participant that will never enter it.
C9_RaisedStillAtBarrier ==
    /\ \A p \in Procs : pc[p] = "raised" => p \in arrived
    /\ \A q \in Procs : pc[q] = "in_barrier" =>
           \A p \in Procs : p \in arrived \/ pc[p] \in {"called", "writing", "at_barrier"}

\* C10 (as stated): right after any __setitem__ call the cached view is
\* unset.
C10_AsStated ==
    aes_last.op = "__setitem__" => content_as_matrix = None

\* C10 (amended): a __setitem__ call that assigns (its key is inside the
\* bounds) leaves the cached view unset, whatever it was before; a call
\* that fails with the out-of-range error leaves the content and the cached
\* view as they were; the view becomes set again only by as_matrix() or
\* load().
C10_SetItemInvalidates ==
    [][/\ (aes_last'.op = "__setitem__" /\ aes_last'.ok) => content_as_matrix' = None
       /\ (aes_last'.op = "__setitem__" /\ ~aes_last'.ok) =>
              (content' = content /\ content_as_matrix' = content_as_matrix)
       /\ (content_as_matrix = None /\ content_as_matrix' /= None) =>
              aes_last'.op \in {"as_matrix", "load"}]_vars

\* C10 witness: a __setitem__ call has assigned while the cached view was set
C10_Witness ==
    /\ aes_last.op = "__setitem__"
    /\ aes_last.ok
    /\ aes_last.cached_before
    /\ content_as_matrix = None

\* the dense-matrix view of the current content, computed on the claim's
\* side: one row for the single-indexed storage, Q1 rows otherwise
ViewOf(shape, c) ==
    [rows |-> IF Len(shape) = 1 THEN 1 ELSE shape[1],
     cols |-> shape[Len(shape)],
     data |-> [rc \in (0..((IF Len(shape) = 1 THEN 1 ELSE shape[1]) - 1))
                          \X (0..(shape[Len(shape)] - 1)) |->
                  IF Len(shape) = 1 THEN c[rc[2]] ELSE c[<<rc[1], rc[2]>>]]]

\* C11: on one instance, after any sequence of fresh construction,
\* __setitem__, load and as_matrix calls, the cached view is unset or equal
\* to the view of the current content; as_matrix() leaves the view of the
\* current content in the cache, computes it exactly when the cache was
\* unset, and otherwise leaves the cached value as it was.
C11_CacheCoherent ==
    /\ [](Constructed =>
              (content_as_matrix = None \/ content_as_matrix = ViewOf(aes_shape, content)))
    /\ [][aes_last'.op = "as_matrix" =>
              /\ content_as_matrix' = ViewOf(aes_shape', content')
              /\ aes_last'.computed <=> (content_as_matrix = None)
              /\ content_as_matrix /= None => content_as_matrix' = content_as_matrix
              /\ content' = content]_vars

\* C11 witness: a second as_matrix() call found the cache set, after
\* elements were written, and did not compute
C11_Witness ==
    /\ aes_last.op = "as_matrix"
    /\ aes_last.cached_before
    /\ ~aes_last.computed
    /\ \E k \in DOMAIN content : content[k] /= Unset
    /\ content_as_matrix = ViewOf(aes_shape, content)

\* C12: when a successful load returns, the content is what was read back
\* from (directory, filename) and the cached view is set, was computed by
\* this call, and is the view of the loaded content.
C12_LoadRecomputes ==
    (aes_last.op = "load" /\ aes_last.ok) =>
        /\ \A k \in DOMAIN content : element_save(content[k]) = disk.content[k]
        /\ content_as_matrix /= None
        /\ aes_last.computed
        /\ content_as_matrix = ViewOf(aes_shape, content)

\* C12 witness: a successful load on an instance whose cache was set
\* before the call, restoring at least one element
C12_Witness ==
    /\ aes_last.op = "load"
    /\ aes_last.ok
    /\ aes_last.cached_before
    /\ \E k \in DOMAIN content : content[k] /= Unset
    /\ content_as_matrix = ViewOf(aes_shape, content)

\* the length of the storage: the number of positions of self._content
StorageLength == Cardinality(DOMAIN content)

AllSet(c) == \A k \in DOMAIN c : c[k] /= Unset

Printed == last.op = "print_eigenvalues"

\* C15 (as stated): print_eigenvalues(N) prints the first N stored
\* eigenvalues in index order without failing; with N omitted it prints
\* every stored eigenvalue, one line each; in every state reachable through
\* store_snapshot, apply and clear.
C15_PrintsAllStored ==
    Printed =>
        /\ ~last.omitted /\ last.N <= Len(eigenvalues) =>
               /\ ~last.raised
               /\ Len(last.lines) = last.N
        /\ last.omitted =>
               /\ ~last.raised
               /\ Len(last.lines) = Len(eigenvalues)
        /\ \A i \in 1..Len(last.lines) : last.lines[i] = <<i - 1, eigenvalues[i]>>

\* C16: a candidate of inner-product norm exactly 0 is enriched as it is,
\* the zero vector, while a non-zero one is enriched with norm 1; it counts
\* toward N_ret like any other, and the loop stops by the same rule: at the
\* first crossing of 1 - tol below the clamped cap, or else at the cap.
C16_ZeroNormEnriched ==
    Returned =>
        /\ Len(last.Z) = last.N
        /\ \A k \in 1..last.N :
               /\ spectrum.normsq[k] = 0 => last.Z[k] = 0
               /\ spectrum.normsq[k] /= 0 => last.Z[k] = 1
        /\ \A k \in 1..(last.N - 1) : ~AboveTol(retained_energy[k], last.tol)
        /\ last.N < MinOf(last.Nmax, Neigs) => AboveTol(retained_energy[last.N], last.tol)

\* C16 witnesses: a zero-norm candidate enriched after a normalized one, and
\* a zero-norm candidate after which the loop went on
C16_Witness ==
    /\ Returned
    /\ last.N = 2
    /\ spectrum.normsq[1] /= 0
    /\ spectrum.normsq[2] = 0
    /\ last.Z = <<1, 0>>

C16_WitnessContinues ==
    /\ Returned
    /\ \E k \in 1..(last.N - 1) : spectrum.normsq[k] = 0 /\ last.Z[k] = 0

\* C17: apply changes neither the snapshot container nor X, and a call that
\* repeats the call before it (same Nmax and tol, nothing stored or cleared
\* in between) returns the same N_ret, the same eigenvalues and a basis of
\* N_ret vectors again, the vectors of the earlier call not being in it.
C17_ApplyRepeatable ==
    /\ []((Returned /\ last.again) =>
              /\ last.prev = <<last.N, last.eigs, last.N>>
              /\ Len(last.Z) = last.N)
    /\ [][last'.op = "apply" => (snapshots_matrix' = snapshots_matrix /\ X' = X)]_vars

\* C17 witness: the second of two equal apply calls has returned several
\* modes
C17_Witness ==
    /\ Returned
    /\ last.again
    /\ last.N >= 2
    /\ Len(last.Z) = last.N

\* participants that have left the with statement of the save call
\* without an exception
PastWriting == {p \in Procs : is_io_process(p) /\ pc[p] \in {"at_barrier", "in_barrier", "returned"}}

\* C18 (as stated): in any state reachable through store_snapshot, apply
\* and clear the eigenvalue and retained-energy sequences have an entry for
\* every index below the number N of stored snapshots, and a save call
\* whose writer has finished has written exactly the N lines
\* <<i, value at i>>, i = 0..N-1, in increasing order.
C18_WritesNLines ==
    /\ \A kind \in {"save_eigenvalues_file", "save_retained_energy_file"} :
           Len(Written(kind)) >= Neigs
    /\ PastWriting /= {} =>
           /\ Len(file.lines) = Neigs
           /\ \A i \in 1..Len(file.lines) : file.lines[i] = <<i - 1, Written(call)[i]>>
====
